---------------------------- MODULE Spec2Model ----------------------------
(***************************************************************************)
(* Model of grid_image_processor: GridImageProcessor (processor.py) and    *)
(* the process_single driver (cli.py).                                     *)
(*                                                                         *)
(* An image is a record [width, height, mode, px].  px maps the positions  *)
(* <<x, y>> of the pixels that are not plain white to their <<r, g, b>>    *)
(* value; every other pixel of the width x height grid is <<255,255,255>>. *)
(* Alpha is never read by the code that is modelled (it is unpacked and    *)
(* ignored), so a pixel carries no alpha here; the image's mode says       *)
(* whether it has an alpha channel.                                        *)
(***************************************************************************)
EXTENDS Integers, Sequences, FiniteSets, TLC

VARIABLES
    pc,            \* position in process_image / the driver
    caller,        \* "single" (process_single), "batch" (batch_process), "none"
    input_file,    \* process_image's input: [name, content]
    output_path,   \* process_image's output path, a sequence of components
    disk_ok,       \* whether the destination can be written
    img,           \* the image Image.open returned (None before)
    offset,        \* self.bracket_offset
    top_left,      \* the four candidates of find_bracket_intersections
    bottom_right,
    top_right,
    bottom_left,
    via,           \* which return statement of find_bracket_intersections ran
    bounds,        \* what find_bracket_intersections returned
    box,           \* the box handed to img.crop
    cropped,       \* [mode, size] of the crop
    resized,       \* [mode, size] of the image that is saved
    ret,           \* process_image's return value
    fs_dirs,       \* the directories that exist
    fs_files,      \* the files written: [path, mode, size]
    exit_code,     \* process_single's exit status
    listing,       \* os.listdir(input_dir)
    png_files,     \* batch_process's png_files
    idx,           \* index in png_files of the file of the current iteration
    successful,    \* batch_process's counters
    failed,
    calls,         \* the process_image calls made by batch_process: [name, ok]
    batch_ret      \* batch_process's return value

image_vars == <<img, top_left, bottom_right, top_right, bottom_left, via, bounds,
                box, cropped, resized>>

call_vars == <<caller, input_file, output_path, disk_ok, offset>>

batch_vars == <<listing, png_files, idx, successful, failed, calls, batch_ret>>

vars == <<pc, call_vars, image_vars, ret, fs_dirs, fs_files, exit_code, batch_vars>>

---------------------------------------------------------------------------
(* Program constants *)

Window == 50

WhiteLevel == 250

DefaultOffset == 2

TargetWidth == 670

TargetHeight == 366

(* Bounds of the model *)

MaxExtra == 1

MarkPos == 10

MaxFiles == 3

---------------------------------------------------------------------------
(* Python values *)

None == <<>>

Min2(a, b) == IF a <= b THEN a ELSE b

Max2(a, b) == IF a >= b THEN a ELSE b

MinOf(S) == CHOOSE m \in S : \A n \in S : m <= n

MaxOf(S) == CHOOSE m \in S : \A n \in S : m >= n

\* range(n): 0, 1, ..., n-1, in that order.
RangeUp(n) == 0 .. (n - 1)

\* range(start, stop, -1): start, start-1, ..., stop+1, in that order; stop
\* itself is not produced.
RangeDown(start, stop) == (stop + 1) .. start

---------------------------------------------------------------------------
(* Pixels *)

White == <<255, 255, 255>>

Black == <<0, 0, 0>>

getpixel(im, x, y) ==
    IF <<x, y>> \in DOMAIN im.px THEN im.px[<<x, y>>] ELSE White

IsBlack(p) == p[1] = 0 /\ p[2] = 0 /\ p[3] = 0

IsBackground(p) == p[1] > WhiteLevel /\ p[2] > WhiteLevel /\ p[3] > WhiteLevel

---------------------------------------------------------------------------
(* find_bracket_intersections: the four corner scans *)

\* The pixels of the window cols x rows that stop a scan.
Hits(im, cols, rows) ==
    {p \in DOMAIN im.px : p[1] \in cols /\ p[2] \in rows /\ IsBlack(getpixel(im, p[1], p[2]))}

\* The nested loops "for y in rows: for x in cols: if black: found = (x, y);
\* break" with the outer break: the first black pixel in iteration order.
\* rowsUp / colsUp say whether the range is iterated upwards.
FirstHit(im, cols, colsUp, rows, rowsUp) ==
    LET H == Hits(im, cols, rows) IN
    IF H = {} THEN None
    ELSE LET ys == {p[2] : p \in H}
             y  == IF rowsUp THEN MinOf(ys) ELSE MaxOf(ys)
             xs == {p[1] : p \in {q \in H : q[2] = y}}
             x  == IF colsUp THEN MinOf(xs) ELSE MaxOf(xs)
         IN <<x, y>>

LowCols(im) == RangeUp(Min2(Window, im.width))

LowRows(im) == RangeUp(Min2(Window, im.height))

HighCols(im) == RangeDown(im.width - 1, Max2(im.width - Window, 0))

HighRows(im) == RangeDown(im.height - 1, Max2(im.height - Window, 0))

ScanTopLeft(im) == FirstHit(im, LowCols(im), TRUE, LowRows(im), TRUE)

ScanBottomRight(im) == FirstHit(im, HighCols(im), FALSE, HighRows(im), FALSE)

ScanTopRight(im) == FirstHit(im, HighCols(im), FALSE, LowRows(im), TRUE)

ScanBottomLeft(im) == FirstHit(im, LowCols(im), TRUE, HighRows(im), FALSE)

---------------------------------------------------------------------------
(* _find_content_bounds_fallback *)

Content(im) == {p \in DOMAIN im.px : ~IsBackground(getpixel(im, p[1], p[2]))}

\* left, top start at width, height and right, bottom at 0; every
\* non-background pixel applies min / max to them.
FindContentBoundsFallback(im) ==
    LET C == Content(im) IN
    << MinOf({im.width} \cup {p[1] : p \in C}),
       MinOf({im.height} \cup {p[2] : p \in C}),
       MaxOf({0} \cup {p[1] : p \in C}),
       MaxOf({0} \cup {p[2] : p \in C}) >>

---------------------------------------------------------------------------
(* find_bracket_intersections: reconciliation and validation *)

\* Reconciled without the bottom_left branch (lines 85-87 dropped).
ReconciledNoBottomLeft(tl, br, tr, bl, off) ==
    LET left0   == tl[1] + off
        top0    == tl[2] + off
        right0  == br[1] - off
        bottom0 == br[2] - off
        right1  == IF tr # None THEN Max2(right0, tr[1] - off) ELSE right0
        top1    == IF tr # None THEN Min2(top0, tr[2] + off) ELSE top0
    IN <<left0, top1, right1, bottom0>>

\* Lines 76-87, given top_left and bottom_right are set.
Reconciled(tl, br, tr, bl, off) ==
    LET left0   == tl[1] + off
        top0    == tl[2] + off
        right0  == br[1] - off
        bottom0 == br[2] - off
        right1  == IF tr # None THEN Max2(right0, tr[1] - off) ELSE right0
        top1    == IF tr # None THEN Min2(top0, tr[2] + off) ELSE top0
        left1   == IF bl # None THEN Min2(left0, bl[1] + off) ELSE left0
        bottom1 == IF bl # None THEN Max2(bottom0, bl[2] - off) ELSE bottom0
    IN <<left1, top1, right1, bottom1>>

\* Line 89 with >= for >.
RectOkNonStrict(r) == r[3] >= r[1] /\ r[4] >= r[2]

\* Line 89.
RectOk(r) == r[3] > r[1] /\ r[4] > r[2]

\* Lines 75-95: [via, bounds].
Reconcile(im, tl, br, tr, bl, off) ==
    IF tl # None /\ br # None
    THEN LET r == Reconciled(tl, br, tr, bl, off) IN
         IF RectOk(r) THEN [via |-> "bracket", bounds |-> r]
         ELSE [via |-> "fallback_warning", bounds |-> FindContentBoundsFallback(im)]
    ELSE [via |-> "fallback", bounds |-> FindContentBoundsFallback(im)]

\* Line 133 adding 2 for 1 on the high sides.
CropBoxTwice(b) == <<b[1], b[2], b[3] + 2, b[4] + 2>>

\* Line 133: the box of img.crop.
CropBox(b) == <<b[1], b[2], b[3] + 1, b[4] + 1>>

---------------------------------------------------------------------------
(* Inputs *)

Sizes == {<<1, 1>>, <<3, 2>>, <<60, 60>>, <<800, 600>>}

Insets == {0, DefaultOffset, 500}

Colours == {Black, <<0, 0, 1>>, <<251, 251, 250>>}

\* The coordinates at which pixels are placed along a dimension of length d:
\* all of them in a small image; in a large one a point inside and the last
\* point of the window of side Window at either end.
Grid(d) ==
    IF d < Window THEN 0 .. (d - 1)
    ELSE {MarkPos, Window - 1, d - Window, d - 1 - MarkPos}

Positions(w, h) == Grid(w) \X Grid(h)

\* The grid's coordinates within Window of the low end, and of the high end.
LowGrid(d) == {v \in Grid(d) : v < Min2(Window, d)}

HighGrid(d) == {v \in Grid(d) : v >= d - Min2(Window, d)}

\* Four single black pixels on the corners of a rectangle, one near each
\* corner of the image, or none.
Brackets(w, h) ==
    {{}} \cup
    {{<<q[1], q[3]>>, <<q[2], q[3]>>, <<q[1], q[4]>>, <<q[2], q[4]>>} :
        q \in {r \in LowGrid(w) \X HighGrid(w) \X LowGrid(h) \X HighGrid(h) :
                 r[1] < r[2] /\ r[3] < r[4]}}

ExtraSets(w, h) == {E \in SUBSET Positions(w, h) : Cardinality(E) <= MaxExtra}

Extras(w, h) == UNION {[E -> Colours] : E \in ExtraSets(w, h)}

MakeImage(w, h, mode, B, e) ==
    [width |-> w, height |-> h, mode |-> mode,
     px |-> [p \in B \cup DOMAIN e |-> IF p \in B THEN Black ELSE e[p]]]

Images ==
    UNION {{MakeImage(s[1], s[2], "RGBA", B, e) :
              B \in Brackets(s[1], s[2]), e \in Extras(s[1], s[2])} : s \in Sizes}

---------------------------------------------------------------------------
(* Pillow and os, as far as process_image uses them *)

\* The content of a file that Image.open cannot read.
Corrupt == [width |-> 0, height |-> 0, mode |-> "corrupt", px |-> <<>>]

Decodable(content) == content.mode # "corrupt"

\* img.convert('RGBA'): the pixels' r, g, b stay as px gives them.
ConvertRGBA(im) == [im EXCEPT !.mode = "RGBA"]

\* Image.crop keeps the mode; the size is that of the box.
CropOf(im, b) == [mode |-> im.mode, size |-> <<b[3] - b[1], b[4] - b[2]>>]

BoxInverted(b) == b[3] < b[1] \/ b[4] < b[2]

IsEmpty(c) == c.size[1] <= 0 \/ c.size[2] <= 0

\* Image.resize keeps the mode.
ResizeOf(c, size) == [mode |-> c.mode, size |-> size]

\* os.path.dirname
dirname(path) == SubSeq(path, 1, Len(path) - 1)

\* The directories os.makedirs(d, exist_ok=True) leaves behind.
Prefixes(d) == {SubSeq(d, 1, n) : n \in 1 .. Len(d)}

---------------------------------------------------------------------------
(* process_image *)

ResetLocals ==
    /\ img' = None
    /\ top_left' = None
    /\ bottom_right' = None
    /\ top_right' = None
    /\ bottom_left' = None
    /\ via' = "none"
    /\ bounds' = None
    /\ box' = None
    /\ cropped' = None
    /\ resized' = None

\* Line 126: img = Image.open(input_path)
Open ==
    /\ pc = "open"
    /\ \/ /\ ~Decodable(input_file.content)
          /\ pc' = "except"
          /\ UNCHANGED img
       \/ /\ Decodable(input_file.content)
          /\ img' = input_file.content
          /\ pc' = "locate"
    /\ UNCHANGED <<call_vars, top_left, bottom_right, top_right, bottom_left, via,
                   bounds, box, cropped, resized, ret, fs_dirs, fs_files,
                   exit_code, batch_vars>>

\* Line 130: bounds = self.find_bracket_intersections(img).  The conversion of
\* lines 29-30 rebinds the callee's img only.
Locate ==
    /\ pc = "locate"
    /\ LET im == IF img.mode # "RGBA" THEN ConvertRGBA(img) ELSE img
           tl == ScanTopLeft(im)
           br == ScanBottomRight(im)
           tr == ScanTopRight(im)
           bl == ScanBottomLeft(im)
           r  == Reconcile(im, tl, br, tr, bl, offset)
       IN /\ top_left' = tl
          /\ bottom_right' = br
          /\ top_right' = tr
          /\ bottom_left' = bl
          /\ via' = r.via
          /\ bounds' = r.bounds
    /\ pc' = "crop"
    /\ UNCHANGED <<call_vars, img, box, cropped, resized, ret, fs_dirs, fs_files,
                   exit_code, batch_vars>>

\* Lines 131-133: cropped = img.crop((left, top, right + 1, bottom + 1)).
\* For a box with right < left or lower < upper Pillow raises ValueError or,
\* before it checked, returns an empty image: either can happen.
Crop ==
    /\ pc = "crop"
    /\ box' = CropBox(bounds)
    /\ \/ /\ ~BoxInverted(CropBox(bounds))
          /\ cropped' = CropOf(img, CropBox(bounds))
          /\ pc' = "resize"
       \/ /\ BoxInverted(CropBox(bounds))
          /\ cropped' = [mode |-> img.mode, size |-> <<0, 0>>]
          /\ pc' = "resize"
       \/ /\ BoxInverted(CropBox(bounds))
          /\ cropped' = None
          /\ pc' = "except"
    /\ UNCHANGED <<call_vars, img, top_left, bottom_right, top_right, bottom_left,
                   via, bounds, resized, ret, fs_dirs, fs_files, exit_code,
                   batch_vars>>

\* Line 137: resized = cropped.resize(self.target_size, LANCZOS).  Resizing an
\* empty image may raise.
Resize ==
    /\ pc = "resize"
    /\ \/ /\ resized' = ResizeOf(cropped, <<TargetWidth, TargetHeight>>)
          /\ pc' = "flatten"
       \/ /\ IsEmpty(cropped)
          /\ resized' = None
          /\ pc' = "except"
    /\ UNCHANGED <<call_vars, img, top_left, bottom_right, top_right, bottom_left,
                   via, bounds, box, cropped, ret, fs_dirs, fs_files, exit_code,
                   batch_vars>>

\* Lines 141-144: paste onto a white RGB background when the mode is RGBA.
Flattened(r) == IF r.mode = "RGBA" THEN [r EXCEPT !.mode = "RGB"] ELSE r

Flatten ==
    /\ pc = "flatten"
    /\ resized' = Flattened(resized)
    /\ pc' = "makedirs"
    /\ UNCHANGED <<call_vars, img, top_left, bottom_right, top_right, bottom_left,
                   via, bounds, box, cropped, ret, fs_dirs, fs_files, exit_code,
                   batch_vars>>

\* Line 146: os.makedirs(os.path.dirname(output_path), exist_ok=True);
\* os.makedirs('') raises FileNotFoundError.
MakeDirs ==
    /\ pc = "makedirs"
    /\ \/ /\ dirname(output_path) = <<>>
          /\ pc' = "except"
          /\ UNCHANGED fs_dirs
       \/ /\ dirname(output_path) # <<>>
          /\ fs_dirs' = fs_dirs \cup Prefixes(dirname(output_path))
          /\ pc' = "save"
    /\ UNCHANGED <<call_vars, image_vars, ret, fs_files, exit_code, batch_vars>>

\* Lines 148-151: resized.save(output_path, 'PNG', optimize=True); return True
Save ==
    /\ pc = "save"
    /\ \/ /\ disk_ok
          /\ fs_files' = {f \in fs_files : f.path # output_path} \cup
                           {[path |-> output_path, mode |-> resized.mode,
                             size |-> resized.size]}
          /\ ret' = TRUE
          /\ pc' = "return"
       \/ /\ ~disk_ok
          /\ pc' = "except"
          /\ UNCHANGED <<fs_files, ret>>
    /\ UNCHANGED <<call_vars, image_vars, fs_dirs, exit_code, batch_vars>>

\* Lines 153-156: except Exception: return False
Except ==
    /\ pc = "except"
    /\ ret' = FALSE
    /\ pc' = "return"
    /\ UNCHANGED <<call_vars, image_vars, fs_dirs, fs_files, exit_code, batch_vars>>

ProcessImage == Open \/ Locate \/ Crop \/ Resize \/ Flatten \/ MakeDirs \/ Save \/ Except

---------------------------------------------------------------------------
(* File names and paths: a name is a sequence of characters, a path a       *)
(* sequence of names.                                                       *)

\* str.lower, on the letters the model's names use.
LowerChar(ch) ==
    CASE ch = "P" -> "p"
      [] ch = "N" -> "n"
      [] ch = "G" -> "g"
      [] ch = "J" -> "j"
      [] OTHER -> ch

lower(s) == [k \in 1 .. Len(s) |-> LowerChar(s[k])]

endswith(s, suffix) ==
    /\ Len(s) >= Len(suffix)
    /\ SubSeq(s, Len(s) - Len(suffix) + 1, Len(s)) = suffix

DotPng == <<".", "p", "n", "g">>

\* f.lower() without the call: f.endswith('.png').
IsPngCaseSensitive(name) == endswith(name, DotPng)

\* Line 172: f.lower().endswith('.png')
IsPng(name) == endswith(lower(name), DotPng)

\* Line 172: the list comprehension over os.listdir(input_dir), in its order.
RECURSIVE PngFiles(_)
PngFiles(entries) ==
    IF entries = <<>> THEN <<>>
    ELSE (IF IsPng(Head(entries).name) THEN <<Head(entries)>> ELSE <<>>)
         \o PngFiles(Tail(entries))

Names ==
    { <<"a", ".", "p", "n", "g">>,
      <<"b", ".", "P", "N", "G">>,
      <<"c", ".", "P", "n", "g">>,
      <<"d", ".", "j", "p", "g">>,
      <<"p", "n", "g">> }

ProcessedPng == <<"p", "r", "o", "c", "e", "s", "s", "e", "d", ".", "p", "n", "g">>

OutDir == <<"o", "u", "t">>

NewDir == <<"n", "e", "w">>

OutPaths == { <<ProcessedPng>>, <<OutDir, ProcessedPng>>, <<NewDir, OutDir, ProcessedPng>> }

OpenModes == {"RGB", "RGBA", "LA", "P"}

NoPixels == [p \in {} |-> White]

\* A screenshot with a bracket pixel in each corner.
Bracketed(mode) ==
    MakeImage(800, 600, mode,
              {<<MarkPos, MarkPos>>, <<799 - MarkPos, MarkPos>>,
               <<MarkPos, 599 - MarkPos>>, <<799 - MarkPos, 599 - MarkPos>>},
              NoPixels)

\* Content without brackets.
Plain(mode) ==
    [width |-> 3, height |-> 2, mode |-> mode,
     px |-> [p \in {<<0, 0>>, <<2, 1>>} |-> <<0, 0, 1>>]]

\* Nothing but background.
Blank(mode) == MakeImage(3, 2, mode, {}, NoPixels)

FileContents ==
    {Corrupt, Blank("RGB")} \cup UNION {{Bracketed(m), Plain(m)} : m \in OpenModes}

BatchContents == {Corrupt, Bracketed("RGBA"), Blank("RGB")}

\* The directory listings: at most MaxFiles entries with distinct names.
Listings ==
    UNION {{l \in [1 .. n -> [name : Names, content : BatchContents]] :
              \A a, b \in 1 .. n : a # b => l[a].name # l[b].name}
           : n \in 0 .. MaxFiles}

---------------------------------------------------------------------------
(* process_single (cli.py) *)

\* Lines 148-156: processor.process_image(input_file, output_file, ...)
SingleCall ==
    /\ pc = "single"
    /\ caller = "single"
    /\ ResetLocals
    /\ pc' = "open"
    /\ UNCHANGED <<call_vars, ret, fs_dirs, fs_files, exit_code, batch_vars>>

\* Lines 158-163: sys.exit(1) unless process_image returned True.
SingleFinish ==
    /\ pc = "return"
    /\ caller = "single"
    /\ exit_code' = IF ret THEN 0 ELSE 1
    /\ pc' = "exit"
    /\ UNCHANGED <<call_vars, image_vars, ret, fs_dirs, fs_files, batch_vars>>

---------------------------------------------------------------------------
(* batch_process *)

\* Lines 170-185: make the output directory, list the PNG files, return
\* (0, 0) when there are none.
BatchStart ==
    /\ pc = "batch"
    /\ caller = "batch"
    /\ fs_dirs' = fs_dirs \cup Prefixes(<<OutDir>>)
    /\ png_files' = PngFiles(listing)
    /\ \/ /\ PngFiles(listing) = <<>>
          /\ batch_ret' = <<0, 0>>
          /\ pc' = "batch_done"
          /\ UNCHANGED <<successful, failed, idx>>
       \/ /\ PngFiles(listing) # <<>>
          /\ successful' = 0
          /\ failed' = 0
          /\ idx' = 1
          /\ pc' = "batch_loop"
          /\ UNCHANGED batch_ret
    /\ UNCHANGED <<call_vars, image_vars, ret, fs_files, exit_code, listing, calls>>

\* Lines 187-191: the call of process_image for the next file.
BatchCall ==
    /\ pc = "batch_loop"
    /\ idx <= Len(png_files)
    /\ input_file' = png_files[idx]
    /\ output_path' = <<OutDir, png_files[idx].name>>
    /\ ResetLocals
    /\ pc' = "open"
    /\ UNCHANGED <<caller, disk_ok, offset, ret, fs_dirs, fs_files, exit_code,
                   batch_vars>>

\* The counters after process_image returned ok.
Counted(ok, s, f) == IF ok THEN <<s + 1, f>> ELSE <<s, f + 1>>

\* Lines 191-194: count the outcome, go on with the next file.
BatchCount ==
    /\ pc = "return"
    /\ caller = "batch"
    /\ successful' = Counted(ret, successful, failed)[1]
    /\ failed' = Counted(ret, successful, failed)[2]
    /\ calls' = Append(calls, [name |-> input_file.name, ok |-> ret])
    /\ idx' = idx + 1
    /\ pc' = "batch_loop"
    /\ UNCHANGED <<call_vars, image_vars, ret, fs_dirs, fs_files, exit_code,
                   listing, png_files, batch_ret>>

\* Line 206: return (successful, failed)
BatchReturn ==
    /\ pc = "batch_loop"
    /\ idx > Len(png_files)
    /\ batch_ret' = <<successful, failed>>
    /\ pc' = "batch_done"
    /\ UNCHANGED <<call_vars, image_vars, ret, fs_dirs, fs_files, exit_code,
                   listing, png_files, idx, successful, failed, calls>>

---------------------------------------------------------------------------
(* Specifications *)

NoFile == [name |-> <<>>, content |-> Corrupt]

InitLocals ==
    /\ img = None
    /\ top_left = None
    /\ bottom_right = None
    /\ top_right = None
    /\ bottom_left = None
    /\ via = "none"
    /\ bounds = None
    /\ box = None
    /\ cropped = None
    /\ resized = None
    /\ ret = None

InitNoBatch ==
    /\ listing = <<>>
    /\ png_files = <<>>
    /\ idx = 0
    /\ successful = 0
    /\ failed = 0
    /\ calls = <<>>
    /\ batch_ret = None

\* Spec: find_bracket_intersections and the crop of process_image, on every
\* image of Images with every inset of Insets.
Init ==
    /\ pc = "locate"
    /\ caller = "none"
    /\ input_file = NoFile
    /\ output_path = <<OutDir, ProcessedPng>>
    /\ disk_ok = TRUE
    /\ offset \in Insets
    /\ img \in Images
    /\ top_left = None
    /\ bottom_right = None
    /\ top_right = None
    /\ bottom_left = None
    /\ via = "none"
    /\ bounds = None
    /\ box = None
    /\ cropped = None
    /\ resized = None
    /\ ret = None
    /\ fs_dirs = {<<OutDir>>}
    /\ fs_files = {}
    /\ exit_code = None
    /\ InitNoBatch

Next == Locate \/ Crop

Spec == Init /\ [][Next]_vars

\* SpecSingle: process_single on one input file and one output path.
InitSingle ==
    /\ pc = "single"
    /\ caller = "single"
    /\ input_file \in [name : {<<"s", ".", "p", "n", "g">>}, content : FileContents]
    /\ output_path \in OutPaths
    /\ disk_ok \in BOOLEAN
    /\ offset \in Insets
    /\ InitLocals
    /\ fs_dirs = {<<OutDir>>}
    /\ fs_files = {}
    /\ exit_code = None
    /\ InitNoBatch

NextSingle == SingleCall \/ ProcessImage \/ SingleFinish

SpecSingle == InitSingle /\ [][NextSingle]_vars

\* SpecBatch: batch_process on one directory listing.
InitBatch ==
    /\ pc = "batch"
    /\ caller = "batch"
    /\ input_file = NoFile
    /\ output_path = <<>>
    /\ disk_ok = TRUE
    /\ offset = DefaultOffset
    /\ InitLocals
    /\ fs_dirs = {}
    /\ fs_files = {}
    /\ exit_code = None
    /\ listing \in Listings
    /\ png_files = <<>>
    /\ idx = 0
    /\ successful = 0
    /\ failed = 0
    /\ calls = <<>>
    /\ batch_ret = None

NextBatch == BatchStart \/ BatchCall \/ ProcessImage \/ BatchCount \/ BatchReturn

SpecBatch == InitBatch /\ [][NextBatch]_vars

---------------------------------------------------------------------------
(* Properties of find_bracket_intersections and the crop box *)

Located == via # "none"

AllBackground(im) == Content(im) = {}

BlackPixels(im) == {p \in DOMAIN im.px : IsBlack(im.px[p])}

Side(d) == Min2(Window, d)

\* The specified windows: squares of side min(50, dimension) that include the
\* corner pixel they are anchored at.
InLow(v, d) == v >= 0 /\ v < Side(d)

InHigh(v, d) == v >= d - Side(d) /\ v <= d - 1

InRefWindow(p, im, right, low) ==
    /\ IF right THEN InHigh(p[1], im.width) ELSE InLow(p[1], im.width)
    /\ IF low THEN InHigh(p[2], im.height) ELSE InLow(p[2], im.height)

\* q comes before p in the scan order of the corner (right, low): rows
\* outermost, away from the corner's edges.
Before(q, p, right, low) ==
    LET rowBefore == IF low THEN q[2] > p[2] ELSE q[2] < p[2]
        colBefore == IF right THEN q[1] > p[1] ELSE q[1] < p[1]
    IN rowBefore \/ (q[2] = p[2] /\ colBefore)

\* c is the reference candidate of the corner: the first black pixel of the
\* specified window in scan order, None when the window holds none.
IsRefCandidate(c, im, right, low) ==
    LET W == {p \in BlackPixels(im) : InRefWindow(p, im, right, low)} IN
    IF W = {} THEN c = None
    ELSE c \in W /\ \A q \in W : ~Before(q, c, right, low)

\* C1: an image whose pixels are all background is never handed to the crop
\* step with the degenerate rectangle (width, height, 0, 0); locating fails
\* with an error instead.
C1_AllBackgroundIsAnError ==
    (Located /\ AllBackground(img)) => bounds # <<img.width, img.height, 0, 0>>

AllFour ==
    top_left # None /\ bottom_right # None /\ top_right # None /\ bottom_left # None

OneOf(v, a, b) == v = a \/ v = b

\* C2 as stated: with all four candidates and the bracket path taken, the
\* rectangle lies inside the four corner points offset inward by the inset.
C2_InsideCorners ==
    (Located /\ AllFour /\ via = "bracket") =>
        /\ bounds[1] >= top_left[1] + offset /\ bounds[1] >= bottom_left[1] + offset
        /\ bounds[2] >= top_left[2] + offset /\ bounds[2] >= top_right[2] + offset
        /\ bounds[3] <= bottom_right[1] - offset /\ bounds[3] <= top_right[1] - offset
        /\ bounds[4] <= bottom_right[2] - offset /\ bounds[4] <= bottom_left[2] - offset
        /\ OneOf(bounds[1], top_left[1] + offset, bottom_left[1] + offset)
        /\ OneOf(bounds[2], top_left[2] + offset, top_right[2] + offset)
        /\ OneOf(bounds[3], bottom_right[1] - offset, top_right[1] - offset)
        /\ OneOf(bounds[4], bottom_right[2] - offset, bottom_left[2] - offset)

\* C2 amended: with all four candidates and the bracket path taken, the
\* rectangle encloses the four corner points offset inward by the inset: each
\* side equals one of its two offsets and lies at or outside both of them.
C2_EnclosesCorners ==
    (Located /\ AllFour /\ via = "bracket") =>
        /\ bounds[1] <= top_left[1] + offset /\ bounds[1] <= bottom_left[1] + offset
        /\ bounds[2] <= top_left[2] + offset /\ bounds[2] <= top_right[2] + offset
        /\ bounds[3] >= bottom_right[1] - offset /\ bounds[3] >= top_right[1] - offset
        /\ bounds[4] >= bottom_right[2] - offset /\ bounds[4] >= bottom_left[2] - offset
        /\ OneOf(bounds[1], top_left[1] + offset, bottom_left[1] + offset)
        /\ OneOf(bounds[2], top_left[2] + offset, top_right[2] + offset)
        /\ OneOf(bounds[3], bottom_right[1] - offset, top_right[1] - offset)
        /\ OneOf(bounds[4], bottom_right[2] - offset, bottom_left[2] - offset)

\* The bracket path returned with all four candidates, and bottom_left moved
\* the left side outside top_left's offset.
C2_Witness ==
    /\ Located /\ AllFour /\ via = "bracket"
    /\ top_left[1] # bottom_left[1]
    /\ bounds[1] < top_left[1] + offset

\* The image's black pixels are exactly four single pixels (a,b), (c,b),
\* (a,d), (c,d), each in the specified window of its own corner, and the
\* inset leaves a rectangle between them.
FourBrackets(im, off, a, b, c, d) ==
    /\ BlackPixels(im) = {<<a, b>>, <<c, b>>, <<a, d>>, <<c, d>>}
    /\ InRefWindow(<<a, b>>, im, FALSE, FALSE)
    /\ InRefWindow(<<c, b>>, im, TRUE, FALSE)
    /\ InRefWindow(<<a, d>>, im, FALSE, TRUE)
    /\ InRefWindow(<<c, d>>, im, TRUE, TRUE)
    /\ c - a > 2 * off
    /\ d - b > 2 * off

\* C3: four single black pixels on the corners of a rectangle give exactly
\* the rectangle inset on every side, and the crop box one past it on the
\* high sides.
C3_FourPixelsGiveInsetRectangle ==
    Located =>
        \A p \in BlackPixels(img), q \in BlackPixels(img) :
            FourBrackets(img, offset, p[1], p[2], q[1], q[2]) =>
                /\ bounds = <<p[1] + offset, p[2] + offset, q[1] - offset, q[2] - offset>>
                /\ box # None =>
                     box = <<p[1] + offset, p[2] + offset,
                             q[1] - offset + 1, q[2] - offset + 1>>

\* C7: each candidate is the first black pixel, in the corner's scan order,
\* of the full square window anchored at and including the corner's pixel.
C7_CandidatesMatchReference ==
    Located =>
        /\ IsRefCandidate(top_left, img, FALSE, FALSE)
        /\ IsRefCandidate(top_right, img, TRUE, FALSE)
        /\ IsRefCandidate(bottom_right, img, TRUE, TRUE)
        /\ IsRefCandidate(bottom_left, img, FALSE, TRUE)

\* The rectangle of claim C8, from the candidates.
C8_Rect ==
    << (IF bottom_left # None THEN Min2(top_left[1], bottom_left[1]) ELSE top_left[1]) + offset,
       (IF top_right # None THEN Min2(top_left[2], top_right[2]) ELSE top_left[2]) + offset,
       (IF top_right # None THEN Max2(bottom_right[1], top_right[1]) ELSE bottom_right[1]) - offset,
       (IF bottom_left # None THEN Max2(bottom_right[2], bottom_left[2]) ELSE bottom_right[2]) - offset >>

C8_BracketCase ==
    /\ top_left # None /\ bottom_right # None
    /\ C8_Rect[3] > C8_Rect[1] /\ C8_Rect[4] > C8_Rect[2]

\* C8: the bracket path returns the reconciled rectangle exactly when the
\* top-left and bottom-right candidates exist and the rectangle has
\* right > left and bottom > top; otherwise the result is the fallback scan's.
C8_BracketOrFallback ==
    Located =>
        IF C8_BracketCase
        THEN via = "bracket" /\ bounds = C8_Rect
        ELSE via # "bracket" /\ bounds = FindContentBoundsFallback(img)

\* Both candidates found, the inset makes the rectangle degenerate, and the
\* fallback's result was returned.
C8_Witness ==
    /\ Located /\ via = "fallback_warning"
    /\ top_left # None /\ bottom_right # None /\ ~C8_BracketCase
    /\ bounds # C8_Rect

\* C9: with at least one non-background pixel, the rectangle handed to the
\* crop step has left < right and top < bottom.
C9_StrictRectangle ==
    (Located /\ ~AllBackground(img)) => (bounds[1] < bounds[3] /\ bounds[2] < bounds[4])

\* C10: with at least one non-background pixel, the rectangle lies inside the
\* image and the crop box does not reach outside it.
C10_InsideImage ==
    (Located /\ ~AllBackground(img)) =>
        /\ 0 <= bounds[1] /\ bounds[1] <= bounds[3] /\ bounds[3] <= img.width - 1
        /\ 0 <= bounds[2] /\ bounds[2] <= bounds[4] /\ bounds[4] <= img.height - 1
        /\ box # None =>
             /\ box[1] >= 0 /\ box[2] >= 0
             /\ box[3] <= img.width /\ box[4] <= img.height
             /\ box[1] < box[3] /\ box[2] < box[4]

\* A crop whose box reaches the image's right and bottom edges.
C10_Witness ==
    /\ box # None /\ ~AllBackground(img)
    /\ box[3] = img.width /\ box[4] = img.height

---------------------------------------------------------------------------
(* Properties of batch_process and process_single *)

\* A name whose last four characters are ".png" in any letter case.
C4_Matches(name) ==
    /\ Len(name) >= 4
    /\ name[Len(name) - 3] = "."
    /\ name[Len(name) - 2] \in {"p", "P"}
    /\ name[Len(name) - 1] \in {"n", "N"}
    /\ name[Len(name)] \in {"g", "G"}

C4_MatchedEntries == SelectSeq(listing, LAMBDA e : C4_Matches(e.name))

C4_Count(ok) == Cardinality({k \in 1 .. Len(calls) : calls[k].ok = ok})

\* C4: when batch_process returns, process_image has been called exactly once
\* for each listed entry whose name ends in ".png" (any case), in listing
\* order, and for no other entry; a file that cannot be decoded failed and
\* did not stop the files after it; the result is (succeeded, failed) and the
\* two add up to the number of matched entries.
C4_BatchCounts ==
    pc = "batch_done" =>
        /\ Len(calls) = Len(C4_MatchedEntries)
        /\ \A k \in 1 .. Len(calls) :
             /\ calls[k].name = C4_MatchedEntries[k].name
             /\ ~Decodable(C4_MatchedEntries[k].content) => ~calls[k].ok
        /\ batch_ret = <<C4_Count(TRUE), C4_Count(FALSE)>>
        /\ batch_ret[1] + batch_ret[2] = Len(C4_MatchedEntries)

\* Three PNG files, the first of them corrupt: (2, 1).
C4_Witness ==
    /\ pc = "batch_done"
    /\ Len(listing) = 3
    /\ Len(calls) = 3
    /\ ~Decodable(listing[1].content)
    /\ calls[2].ok /\ calls[3].ok
    /\ batch_ret = <<2, 1>>

\* C5: process_single succeeds on a decodable input with content to locate
\* and a writable destination, whatever the form of the output path.
C5_SingleSucceeds ==
    (/\ pc = "exit"
     /\ Decodable(input_file.content)
     /\ ~AllBackground(input_file.content)
     /\ disk_ok)
    => /\ exit_code = 0
       /\ \E f \in fs_files : f.path = output_path

\* C6: every image process_image saves is a 3-channel RGB image.
C6_SavedIsRGB == \A f \in fs_files : f.mode = "RGB"

=============================================================================
